---- MODULE Spec2Model ----
(***************************************************************************)
(* A model of three pieces of @sapphire/framework 1.0.2:                   *)
(*   - the message parser (events/command-handler/CoreMessageParser.ts),   *)
(*   - the listener lifecycle (lib/structures/Listener.ts),                *)
(*   - the single precondition container                                   *)
(*     (lib/utils/preconditions/PreconditionContainerSingle.ts),           *)
(* and of two runs of the first two: message events handled concurrently,  *)
(* and the chain of listener-error events that a fault starts.             *)
(* Strings are sequences of one-character strings, so that length,         *)
(* indexing, substr and startsWith are computed as JavaScript computes     *)
(* them.                                                                   *)
(***************************************************************************)
EXTENDS Integers, Sequences, FiniteSets, TLC

VARIABLES
    \* ---- message parser ----
    clientId,      \* this.context.client.id / message.client.id: a string or null
    regexPrefix,   \* client.options.regexPrefix: a pattern or null
    msg,           \* the message being handled
    ppc,           \* where CoreEvent.run is suspended
    canRun,        \* the value canRunInChannel resolves with
    emitted,       \* events emitted on the client while handling msg, in order
    memberFetches, \* calls of guild.members.fetch while handling msg
    prefixFetches, \* calls of client.fetchPrefix while handling msg
    \* ---- listener lifecycle ----
    lstate,        \* each listener piece: "new", "loaded" (in its store) or "unloaded"
    subs,          \* the emitter's listener arrays: event -> sequence of [l, once]
    stack,         \* the emit calls in progress, innermost last
    tasks,         \* the suspended _run / _runOnce invocations
    firings,       \* every invocation of a listener's handler (run), in order
    emissions,     \* every emit call on the client, in order
    unloads,       \* every store.unload(this) issued by _runOnce, in order
    propagated,    \* firings whose error escaped into the emit call
    seen,          \* per listener, the emissions of its event that were due to it
    \* ---- preconditions ----
    registry,      \* container.stores.get('preconditions'): name -> precondition or Absent
    changes,       \* registry changes made so far
    tree,          \* the precondition container that was constructed
    arg,           \* the context argument of the evaluation in progress
    epc,           \* "idle", "running" or "done"
    cur,           \* where the evaluation stands: a call, an awaited predicate, a return
    calls,         \* the Precondition.run invocations of the current evaluation, in order
    rets,          \* the nodes of the current evaluation that returned, with their value
    result,        \* what the evaluation ended with: "pass", "fail" or "error"
    evals,         \* evaluations started so far
    prev,          \* the preconditions the previous evaluation invoked, in order
    \* ---- message events handled concurrently ----
    handlings,     \* the invocations of CoreEvent.run, in order of arrival
    outbox,        \* the events emitted on the client by all of them, in order
    \* ---- the chain of listener-error events a fault starts ----
    eRun,          \* how the run of the listener-error listener ends, on every call
    chain,         \* "quiet", "emitted" (emit of listenerError under way), "suspended"
    depth,         \* the emit calls of listenerError nested on the call stack
    unhandled      \* a rejection of _run that nothing handles

parserVars == <<clientId, regexPrefix, msg, ppc, canRun, emitted,
                memberFetches, prefixFetches>>

listenerVars == <<lstate, subs, stack, tasks, firings, emissions, unloads, propagated, seen>>

preVars == <<registry, changes, tree, arg, epc, cur, calls, rets, result, evals, prev>>

concVars == <<handlings, outbox>>

faultVars == <<eRun, chain, depth, unhandled>>

vars == <<parserVars, listenerVars, preVars, concVars, faultVars>>

\* what the steps of each of the pieces leave alone
notParser == <<listenerVars, preVars, concVars, faultVars>>
notListener == <<parserVars, preVars, concVars, faultVars>>
notPre == <<parserVars, listenerVars, concVars, faultVars>>
notConc == <<parserVars, listenerVars, preVars, faultVars>>
notFault == <<parserVars, preVars, concVars>>

(***************************************************************************)
(* JavaScript strings                                                      *)
(***************************************************************************)
Str(kind, val) == [kind |-> kind, val |-> val]
Null == Str("null", <<>>)
Undefined == "undefined"

\* String.prototype.startsWith
StartsWith(s, p) == Len(p) <= Len(s) /\ SubSeq(s, 1, Len(p)) = p

\* s[i], 0-based; undefined past the end
CharAt(s, i) == IF i >= 0 /\ i < Len(s) THEN s[i + 1] ELSE Undefined

\* String.prototype.substr(start, length), start >= 0
Substr(s, start, length) ==
    LET last == IF start + length < Len(s) THEN start + length ELSE Len(s)
    IN  SubSeq(s, start + 1, last)

(***************************************************************************)
(* Message parser: CoreMessageParser.ts                                    *)
(***************************************************************************)
\* `content.length < 20` (CoreMessageParser.ts line 58)
MinMentionLength == 20

\* a faulty getMentionPrefix: an off-by-one length test (`<=` for `<`)
GetMentionPrefixOffByOne(id, content) ==
    IF id = Null \/ id.val = <<>> THEN Null
    ELSE IF Len(content) <= MinMentionLength \/ ~StartsWith(content, <<"<", "@">>) THEN Null
    ELSE LET nickname == CharAt(content, 2) = "!"
             idOffset == IF nickname THEN 3 ELSE 2
             idLength == Len(id.val)
         IN  IF CharAt(content, idOffset + idLength) # ">" THEN Null
             ELSE IF Substr(content, idOffset, idLength) = id.val
                  THEN Str("str", Substr(content, 0, idOffset + idLength + 1))
                  ELSE Null

\* a faulty getMentionPrefix: without the test of the closing `>` (line 66)
GetMentionPrefixNoClose(id, content) ==
    IF id = Null \/ id.val = <<>> THEN Null
    ELSE IF Len(content) < MinMentionLength \/ ~StartsWith(content, <<"<", "@">>) THEN Null
    ELSE LET nickname == CharAt(content, 2) = "!"
             idOffset == IF nickname THEN 3 ELSE 2
             idLength == Len(id.val)
         IN  IF Substr(content, idOffset, idLength) = id.val
             THEN Str("str", Substr(content, 0, idOffset + idLength + 1))
             ELSE Null

\* CoreEvent.getMentionPrefix (lines 51-73); `!id` holds of null and of ''
GetMentionPrefix(id, content) ==
    IF id = Null \/ id.val = <<>> THEN Null
    ELSE IF Len(content) < MinMentionLength \/ ~StartsWith(content, <<"<", "@">>) THEN Null
    ELSE LET nickname == CharAt(content, 2) = "!"
             idOffset == IF nickname THEN 3 ELSE 2
             idLength == Len(id.val)
         IN  IF CharAt(content, idOffset + idLength) # ">" THEN Null
             ELSE IF Substr(content, idOffset, idLength) = id.val
                  THEN Str("str", Substr(content, 0, idOffset + idLength + 1))
                  ELSE Null

\* Array.prototype.find over the candidates, in order
RECURSIVE Find(_, _)
Find(content, candidates) ==
    IF candidates = <<>> THEN Null
    ELSE IF StartsWith(content, Head(candidates)) THEN Str("str", Head(candidates))
    ELSE Find(content, Tail(candidates))

\* the last matching candidate instead of the first
RECURSIVE FindLast(_, _)
FindLast(content, candidates) ==
    IF candidates = <<>> THEN Null
    ELSE LET later == FindLast(content, Tail(candidates))
         IN  IF later # Null THEN later
             ELSE IF StartsWith(content, Head(candidates)) THEN Str("str", Head(candidates))
             ELSE Null

\* a faulty getPrefix: the last matching candidate is taken
GetPrefixLast(content, fetched) ==
    IF fetched = Null THEN Null
    ELSE IF fetched.kind = "str"
         THEN IF StartsWith(content, fetched.val) THEN fetched ELSE Null
         ELSE FindLast(content, fetched.val)

\* CoreEvent.getPrefix (lines 75-79)
GetPrefix(content, fetched) ==
    IF fetched = Null THEN Null
    ELSE IF fetched.kind = "str"
         THEN IF StartsWith(content, fetched.val) THEN fetched ELSE Null
         ELSE Find(content, fetched.val)

\* a faulty run: the pattern tier is tested before the mention tier
ResolveTierRegexFirst(id, regex, content) ==
    LET mentionPrefix == GetMentionPrefix(id, content)
    IN  IF regex # Null
        THEN [tier |-> "regex", prefix |-> regex]
        ELSE IF mentionPrefix # Null
             THEN IF Len(content) = Len(mentionPrefix.val)
                  THEN [tier |-> "mentionOnly", prefix |-> Null]
                  ELSE [tier |-> "mention", prefix |-> mentionPrefix]
             ELSE [tier |-> "fetch", prefix |-> Null]

\* a faulty run: the pattern `^x` is the prefix only of a text that matches it
ResolveTierPatternTested(id, regex, content) ==
    LET mentionPrefix == GetMentionPrefix(id, content)
    IN  IF mentionPrefix # Null
        THEN IF Len(content) = Len(mentionPrefix.val)
             THEN [tier |-> "mentionOnly", prefix |-> Null]
             ELSE [tier |-> "mention", prefix |-> mentionPrefix]
        ELSE IF regex # Null /\ StartsWith(content, Tail(regex.val))
             THEN [tier |-> "regex", prefix |-> regex]
             ELSE [tier |-> "fetch", prefix |-> Null]

\* a faulty run: a mention followed by one space counts as mention-only
ResolveTierTrimmed(id, regex, content) ==
    LET mentionPrefix == GetMentionPrefix(id, content)
    IN  IF mentionPrefix # Null
        THEN IF \/ Len(content) = Len(mentionPrefix.val)
                \/ content = mentionPrefix.val \o <<" ">>
             THEN [tier |-> "mentionOnly", prefix |-> Null]
             ELSE [tier |-> "mention", prefix |-> mentionPrefix]
        ELSE IF regex # Null
             THEN [tier |-> "regex", prefix |-> regex]
             ELSE [tier |-> "fetch", prefix |-> Null]

\* CoreEvent.run, lines 20-36: which tier decides, once the gate has passed
ResolveTier(id, regex, content) ==
    LET mentionPrefix == GetMentionPrefix(id, content)
    IN  IF mentionPrefix # Null
        THEN IF Len(content) = Len(mentionPrefix.val)
             THEN [tier |-> "mentionOnly", prefix |-> Null]
             ELSE [tier |-> "mention", prefix |-> mentionPrefix]
        ELSE IF regex # Null
             THEN [tier |-> "regex", prefix |-> regex]
             ELSE [tier |-> "fetch", prefix |-> Null]

\* CoreEvent.canRunInChannel, line 44: whether guild.members.fetch is awaited
NeedsMemberFetch(id, m) == ~m.dm /\ ~m.meCached /\ id # Null /\ id.val # <<>>

\* a faulty canRunInChannel: line 42 is missing, a DM is checked like a guild channel
CanRunNoFetchDmChecked(m) == m.meCached /\ m.perm

\* CoreEvent.canRunInChannel (lines 41-49) when no fetch is needed
CanRunNoFetch(m) == m.dm \/ (m.meCached /\ m.perm)

Event(type, prefix) == [type |-> type, prefix |-> prefix]

\* ---- the inputs ----
Id17 == <<"1", "2", "3", "4", "5", "6", "7", "8", "9", "0", "1", "2", "3", "4", "5", "6", "7">>
Id18 == Id17 \o <<"8">>
Other17 == <<"9">> \o Tail(Id17)
\* client.id: not yet known, or the bot's Discord snowflake (17 or 18 digits)
ClientIds == {Null, Str("str", Id17), Str("str", Id18)}
RegexPrefixes == {Null, Str("regex", <<"^", "!">>)}
Heads == {<<>>, <<"<", "@">>, <<"<", "@", "!">>, <<"!">>}
Mids == {<<>>, Id17, Id18, Other17}
Closers == {<<>>, <<">">>}
Tails == {<<>>, <<" ">>, <<"h">>}
Contents == {h \o m \o c \o t : h \in Heads, m \in Mids, c \in Closers, t \in Tails}
Rejects == Str("reject", <<>>)
\* what client.fetchPrefix(message) settles with
FetchResults ==
    {Null, Rejects, Str("str", <<"!">>), Str("str", <<>>),
     Str("array", <<>>), Str("array", <<<<"!">>, <<"?">>>>),
     Str("array", <<<<"?">>, <<"!">>>>), Str("array", <<<<"<", "@">>, <<"<">>>>),
     Str("array", <<<<"<">>, <<"<", "@">>>>)}
\* the channel of the message; `fetched` is what guild.members.fetch settles
\* with: the bot's member, no member, or a rejection
Channels ==
    {[dm |-> TRUE, meCached |-> FALSE, perm |-> FALSE, fetched |-> "reject"],
     [dm |-> FALSE, meCached |-> TRUE, perm |-> TRUE, fetched |-> "reject"],
     [dm |-> FALSE, meCached |-> TRUE, perm |-> FALSE, fetched |-> "reject"],
     [dm |-> FALSE, meCached |-> FALSE, perm |-> TRUE, fetched |-> "member"],
     [dm |-> FALSE, meCached |-> FALSE, perm |-> FALSE, fetched |-> "member"],
     [dm |-> FALSE, meCached |-> FALSE, perm |-> TRUE, fetched |-> "nothing"],
     [dm |-> FALSE, meCached |-> FALSE, perm |-> TRUE, fetched |-> "reject"]}
Authors == {"user", "bot", "webhook"}
Message(content, author, ch, dyn) ==
    [content |-> content, author |-> author, dm |-> ch.dm, meCached |-> ch.meCached,
     perm |-> ch.perm, fetched |-> ch.fetched, dyn |-> dyn]
NoMessage == Message(<<>>, "user", CHOOSE ch \in Channels : ch.dm, Null)

\* a faulty run: only the author is tested, a webhook's message is handled
IgnoredBotsOnly(m) == m.author = "bot"

\* CoreEvent.run, line 14: message.author.bot || message.webhookID
Ignored(m) == m.author \in {"bot", "webhook"}

\* A message event arrives: CoreEvent.run up to its first await (lines 12-17)
Receive(id, regex, m) ==
    /\ ppc = "idle"
    /\ clientId' = id
    /\ regexPrefix' = regex
    /\ msg' = m
    /\ emitted' = <<>>
    /\ prefixFetches' = 0
    /\ IF Ignored(m)
       THEN /\ ppc' = "done"
            /\ canRun' = FALSE
            /\ memberFetches' = 0
       ELSE IF NeedsMemberFetch(id, m)
       THEN /\ ppc' = "awaitMember"
            /\ canRun' = FALSE
            /\ memberFetches' = 1
       ELSE /\ ppc' = "awaitGate"
            /\ canRun' = CanRunNoFetch(m)
            /\ memberFetches' = 0
    /\ UNCHANGED notParser

\* guild.members.fetch settles (line 44), then lines 45-48; a rejection leaves
\* run through Listener._run's catch (Listener.ts lines 87-89)
MemberFetched ==
    /\ ppc = "awaitMember"
    /\ IF msg.fetched # "reject"
       THEN /\ canRun' = (msg.fetched = "member" /\ msg.perm)
            /\ ppc' = "awaitGate"
            /\ emitted' = emitted
       ELSE /\ canRun' = FALSE
            /\ ppc' = "done"
            /\ emitted' = Append(emitted, Event("listenerError", Null))
    /\ UNCHANGED <<clientId, regexPrefix, msg, memberFetches, prefixFetches, notParser>>

\* a faulty run: line 18 is missing, the result of the gate is ignored
GateResolvedUngated ==
    /\ ppc = "awaitGate"
    /\ LET r == ResolveTier(clientId, regexPrefix, msg.content)
       IN  IF r.tier = "mentionOnly"
           THEN /\ ppc' = "done"
                /\ emitted' = Append(emitted, Event("mentionPrefixOnly", Null))
                /\ UNCHANGED prefixFetches
           ELSE IF r.tier = "fetch"
           THEN /\ ppc' = "awaitPrefix"
                /\ prefixFetches' = prefixFetches + 1
                /\ UNCHANGED emitted
           ELSE /\ ppc' = "done"
                /\ emitted' = Append(emitted, Event("prefixedMessage", r.prefix))
                /\ UNCHANGED prefixFetches
    /\ UNCHANGED <<clientId, regexPrefix, msg, canRun, memberFetches, notParser>>

\* canRunInChannel's promise settles: CoreEvent.run lines 18-38, up to fetchPrefix
GateResolved ==
    /\ ppc = "awaitGate"
    /\ LET r == ResolveTier(clientId, regexPrefix, msg.content)
       IN  IF ~canRun
           THEN /\ ppc' = "done"
                /\ UNCHANGED <<emitted, prefixFetches>>
           ELSE IF r.tier = "mentionOnly"
           THEN /\ ppc' = "done"
                /\ emitted' = Append(emitted, Event("mentionPrefixOnly", Null))
                /\ UNCHANGED prefixFetches
           ELSE IF r.tier = "fetch"
           THEN /\ ppc' = "awaitPrefix"
                /\ prefixFetches' = prefixFetches + 1
                /\ UNCHANGED emitted
           ELSE /\ ppc' = "done"
                /\ emitted' = Append(emitted, Event("prefixedMessage", r.prefix))
                /\ UNCHANGED prefixFetches
    /\ UNCHANGED <<clientId, regexPrefix, msg, canRun, memberFetches, notParser>>

\* client.fetchPrefix settles: CoreEvent.run lines 33-38
PrefixFetched ==
    /\ ppc = "awaitPrefix"
    /\ ppc' = "done"
    /\ IF msg.dyn = Rejects
       THEN emitted' = Append(emitted, Event("listenerError", Null))
       ELSE LET parsed == GetPrefix(msg.content, msg.dyn)
            IN  IF parsed # Null
                THEN emitted' = Append(emitted, Event("prefixedMessage", parsed))
                ELSE emitted' = emitted
    /\ UNCHANGED <<clientId, regexPrefix, msg, canRun, memberFetches, prefixFetches, notParser>>

\* The handling of msg is over: the next message event finds the handler idle
Finish ==
    /\ ppc = "done"
    /\ ppc' = "idle"
    /\ clientId' = Null
    /\ regexPrefix' = Null
    /\ msg' = NoMessage
    /\ canRun' = FALSE
    /\ emitted' = <<>>
    /\ memberFetches' = 0
    /\ prefixFetches' = 0
    /\ UNCHANGED notParser

\* The client emits a message event; the configuration and the message are inputs
Arrive ==
    /\ ppc = "idle"
    /\ \E id \in ClientIds, regex \in RegexPrefixes, c \in Contents, a \in Authors,
          ch \in Channels, d \in FetchResults : Receive(id, regex, Message(c, a, ch, d))

ParserNext ==
    \/ Arrive
    \/ MemberFetched
    \/ GateResolved
    \/ PrefixFetched
    \/ Finish

(***************************************************************************)
(* Listener lifecycle: Listener.ts, on Node's EventEmitter                 *)
(***************************************************************************)
\* emissions of "ev" by the event source
MaxEmits == 2
\* handler invocations that throw or reject
MaxFaults == 2

ListenerError == "listenerError"
EventNames == {"ev", ListenerError}
\* A and B listen to "ev", B once; E is the listener of Events.ListenerError
\* (CoreMessageParser.ts lines 86-95)
Listeners == {"A", "B", "E"}
EventOf(l) == IF l = "E" THEN ListenerError ELSE "ev"
Once(l) == l = "B"

\* a faulty onLoad: every listener is subscribed with `on`
SubscribeModeAlwaysOn(l) == "on"

\* Listener.onLoad, line 70: this.once ? 'once' : 'on'
SubscribeMode(l) == IF Once(l) THEN "once" ELSE "on"

\* a faulty constructor: _run is bound whatever `once` says
HandlerAlwaysRun(l) == "_run"

\* Listener constructor, line 63: this.once ? this._runOnce.bind(this) : this._run.bind(this)
Handler(l) == IF Once(l) THEN "_runOnce" ELSE "_run"

\* a faulty _run: a synchronous wrapper without try/catch
RunNoCatch(l, f, o) == [emits |-> <<>>, throws |-> o = "throw"]

\* a faulty _run: the catch block swallows the error
RunSwallow(l, f, o) == [emits |-> <<>>, throws |-> FALSE]

\* Listener._run (lines 84-90) for a handler that returns or resolves ("ok"),
\* throws synchronously ("throw") or rejects ("reject"): what it emits on the
\* client, and whether the error leaves the wrapper synchronously
Run(l, f, o) ==
    [emits |-> IF o \in {"throw", "reject"}
               THEN <<[ev |-> ListenerError, err |-> f, piece |-> l]>>
               ELSE <<>>,
     throws |-> FALSE]

Faults == Cardinality({f \in DOMAIN firings : firings[f].outcome # "ok"})
Outcomes == IF Faults < MaxFaults THEN {"ok", "throw", "reject"} ELSE {"ok"}
ExternalEmits == Cardinality({e \in DOMAIN emissions : emissions[e].ev = "ev"})

Subscribed(ev) == {subs[ev][i].l : i \in DOMAIN subs[ev]}
\* EventEmitter.removeListener: drops the registration of l
RECURSIVE Remove(_, _)
Remove(seq, l) ==
    IF seq = <<>> THEN <<>>
    ELSE IF Head(seq).l = l THEN Tail(seq)
    ELSE <<Head(seq)>> \o Remove(Tail(seq), l)

\* EventEmitter.emit: a frame over a copy of the event's listener array
Frame(e) == [ev |-> e.ev, em |-> Len(emissions) + 1, todo |-> subs[e.ev]]
Emission(e) == [ev |-> e.ev, err |-> e.err, piece |-> e.piece, snapshot |-> subs[e.ev],
                done |-> FALSE]
\* the listeners an emission of ev is due to: the loaded ones, and the once
\* listeners that were loaded and have not fired
Due(ev) ==
    {l \in Listeners : /\ EventOf(l) = ev
                       /\ \/ lstate[l] = "loaded"
                          \/ Once(l) /\ lstate[l] = "unloaded"}
SeenAfter(ev) == [l \in Listeners |-> IF l \in Due(ev) THEN seen[l] + 1 ELSE seen[l]]

\* store.load -> Listener.onLoad (lines 69-71)
Load(l) ==
    /\ stack = <<>>
    /\ lstate[l] = "new"
    /\ lstate' = [lstate EXCEPT ![l] = "loaded"]
    /\ subs' = [subs EXCEPT ![EventOf(l)] =
                   Append(@, [l |-> l, once |-> SubscribeMode(l) = "once"])]
    /\ UNCHANGED <<stack, tasks, firings, emissions, unloads, propagated, seen, notListener>>

\* Listener.onUnload (lines 73-75)
OnUnload(l) == IF ~Once(l) THEN [subs EXCEPT ![EventOf(l)] = Remove(@, l)] ELSE subs

\* store.unload(piece) by the application -> Listener.onUnload
Unload(l) ==
    /\ stack = <<>>
    /\ lstate[l] = "loaded"
    /\ lstate' = [lstate EXCEPT ![l] = "unloaded"]
    /\ subs' = OnUnload(l)
    /\ UNCHANGED <<stack, tasks, firings, emissions, unloads, propagated, seen, notListener>>

\* The event source emits "ev"
Emit ==
    /\ stack = <<>>
    /\ ExternalEmits < MaxEmits
    /\ LET e == [ev |-> "ev", err |-> 0, piece |-> "none"]
       IN  /\ stack' = <<Frame(e)>>
           /\ emissions' = Append(emissions, Emission(e))
           /\ seen' = SeenAfter("ev")
    /\ UNCHANGED <<lstate, subs, tasks, firings, unloads, propagated, notListener>>

\* emit calls the next listener of its copy: the once wrapper of the emitter,
\* then _run / _runOnce up to their first suspension (lines 84-95)
Deliver(o) ==
    /\ stack # <<>>
    /\ LET top == stack[Len(stack)]
           rest == SubSeq(stack, 1, Len(stack) - 1)
       IN  /\ top.todo # <<>>
           /\ LET reg == Head(top.todo)
                  l == reg.l
                  f == Len(firings) + 1
                  r == Run(l, f, o)
                  popped == Append(rest, [top EXCEPT !.todo = Tail(@)])
                  fired == reg.once /\ l \notin Subscribed(top.ev)
                  subs1 == IF reg.once THEN [subs EXCEPT ![top.ev] = Remove(@, l)] ELSE subs
              IN  IF fired
                  THEN /\ o = "ok"
                       /\ stack' = popped
                       /\ UNCHANGED <<subs, tasks, firings, emissions, propagated, seen>>
                  ELSE /\ subs' = subs1
                       /\ firings' = Append(firings,
                              [l |-> l, em |-> top.em, outcome |-> o, done |-> o = "throw"])
                       /\ IF r.throws
                          THEN /\ stack' = rest
                               /\ propagated' = propagated \cup {f}
                               /\ emissions' = [emissions EXCEPT ![top.em].done = TRUE]
                               /\ UNCHANGED <<tasks, seen>>
                          ELSE /\ propagated' = propagated
                               /\ IF o = "throw"
                                  THEN /\ tasks' = IF Handler(l) = "_runOnce"
                                                   THEN tasks \cup {[f |-> f, l |-> l, at |-> "unload"]}
                                                   ELSE tasks
                                       /\ IF r.emits # <<>>
                                          THEN /\ stack' = Append(popped, [ev |-> r.emits[1].ev,
                                                      em |-> Len(emissions) + 1,
                                                      todo |-> subs1[r.emits[1].ev]])
                                               /\ emissions' = Append(emissions,
                                                      [ev |-> r.emits[1].ev, err |-> r.emits[1].err,
                                                       piece |-> r.emits[1].piece,
                                                       snapshot |-> subs1[r.emits[1].ev],
                                                       done |-> FALSE])
                                               /\ seen' = SeenAfter(r.emits[1].ev)
                                          ELSE /\ stack' = popped
                                               /\ UNCHANGED <<emissions, seen>>
                                  ELSE /\ tasks' = tasks \cup {[f |-> f, l |-> l, at |-> "run"]}
                                       /\ stack' = popped
                                       /\ UNCHANGED <<emissions, seen>>
    /\ UNCHANGED <<lstate, unloads, notListener>>

\* emit has called every listener of its copy and returns
Return ==
    /\ stack # <<>>
    /\ stack[Len(stack)].todo = <<>>
    /\ emissions' = [emissions EXCEPT ![stack[Len(stack)].em].done = TRUE]
    /\ stack' = SubSeq(stack, 1, Len(stack) - 1)
    /\ UNCHANGED <<lstate, subs, tasks, firings, unloads, propagated, seen, notListener>>

\* The promise of run settles and _run resumes (lines 86-89)
Settle(t) ==
    /\ stack = <<>>
    /\ t \in tasks /\ t.at = "run"
    /\ LET r == Run(t.l, t.f, firings[t.f].outcome)
       IN  /\ firings' = [firings EXCEPT ![t.f].done = TRUE]
           /\ tasks' = (tasks \ {t}) \cup
                          (IF Handler(t.l) = "_runOnce" THEN {[t EXCEPT !.at = "unload"]} ELSE {})
           /\ IF r.emits # <<>>
              THEN /\ stack' = <<Frame(r.emits[1])>>
                   /\ emissions' = Append(emissions, Emission(r.emits[1]))
                   /\ seen' = SeenAfter(r.emits[1].ev)
              ELSE UNCHANGED <<stack, emissions, seen>>
    /\ UNCHANGED <<lstate, subs, unloads, propagated, notListener>>

\* _runOnce resumes after _run (line 94): store.unload(this) -> onUnload
SelfUnload(t) ==
    /\ stack = <<>>
    /\ t \in tasks /\ t.at = "unload"
    /\ tasks' = tasks \ {t}
    /\ unloads' = Append(unloads, [l |-> t.l, f |-> t.f])
    /\ lstate' = [lstate EXCEPT ![t.l] = "unloaded"]
    /\ subs' = OnUnload(t.l)
    /\ UNCHANGED <<stack, firings, emissions, propagated, seen, notListener>>

ListenerNext ==
    \/ \E l \in Listeners : Load(l)
    \/ \E l \in Listeners : Unload(l)
    \/ Emit
    \/ \E o \in Outcomes : Deliver(o)
    \/ Return
    \/ \E t \in tasks : Settle(t)
    \/ \E t \in tasks : SelfUnload(t)

(***************************************************************************)
(* Preconditions: PreconditionContainerSingle.ts, and the And / Or         *)
(* containers around it                                                    *)
(***************************************************************************)
\* changes of the registry
MaxChanges == 2
\* evaluations of the constructed container
MaxEvals == 2

Names == {"nsfw", "ownerOnly", "modOnly"}
Keys == {"k1", "k2"}
Absent == [id |-> 0, passes |-> FALSE]
\* a registered precondition: which definition it is, and what its run yields
Preconditions == [id : {1, 2}, passes : BOOLEAN]
EmptyContext == [k \in {} |-> 0]
Context(ks, v) == [k \in ks |-> v]

\* new PreconditionContainerSingle(data) (lines 51-59); bare records that the
\* data was a string
Single(data) ==
    IF data.kind = "string"
    THEN [type |-> "single", name |-> data.name, context |-> EmptyContext,
          bare |-> TRUE, children |-> <<>>]
    ELSE [type |-> "single", name |-> data.name, context |-> data.context,
          bare |-> FALSE, children |-> <<>>]
Name(n) == [kind |-> "string", name |-> n, context |-> EmptyContext]
Details(n, c) == [kind |-> "details", name |-> n, context |-> c]
\* an And / Or container over an ordered sequence of children
Composite(type, children) ==
    [type |-> type, name |-> "", context |-> EmptyContext, bare |-> FALSE,
     children |-> children]
NoTree == Composite("none", <<>>)

\* a faulty merge: the caller's value wins on a collision
MergeCallerWins(context, own) ==
    [k \in DOMAIN context \cup DOMAIN own |->
        IF k \in DOMAIN context THEN context[k] ELSE own[k]]

\* { ...context, ...this.context } (line 69)
Merge(context, own) ==
    [k \in DOMAIN context \cup DOMAIN own |->
        IF k \in DOMAIN own THEN own[k] ELSE context[k]]

\* the default `context = {}` of run's third parameter (line 67)
DefaultContext(a) == IF a.given THEN a.ctx ELSE EmptyContext

\* a faulty run: an absent name counts as a failed precondition
SingleRunAbsentFails(reg, node, a) ==
    LET precondition == reg[node.name]
    IN  IF precondition # Absent
        THEN [kind |-> "invoke", pred |-> precondition, val |-> FALSE,
              ctx |-> Merge(DefaultContext(a), node.context)]
        ELSE [kind |-> "value", pred |-> Absent, val |-> FALSE, ctx |-> EmptyContext]

\* a faulty run: the name is looked up among the preconditions of start-up,
\* not in the store as it is now
SingleRunBoundEarly(reg, node, a) ==
    LET precondition == [id |-> 1, passes |-> TRUE]
    IN  [kind |-> "invoke", pred |-> precondition, val |-> FALSE,
         ctx |-> Merge(DefaultContext(a), node.context)]

\* PreconditionContainerSingle.run (lines 67-71): invoke the precondition found
\* under the name, with the merged context, or throw
SingleRun(reg, node, a) ==
    LET precondition == reg[node.name]
    IN  IF precondition # Absent
        THEN [kind |-> "invoke", pred |-> precondition, val |-> FALSE,
              ctx |-> Merge(DefaultContext(a), node.context)]
        ELSE [kind |-> "throw", pred |-> Absent, val |-> FALSE, ctx |-> EmptyContext]

\* a faulty And / Or: every child is evaluated
ShortCircuitNever(type, val) == FALSE

\* whether a child's value decides its And / Or parent
ShortCircuit(type, val) == (type = "and" /\ ~val) \/ (type = "or" /\ val)

RECURSIVE NodeAt(_, _)
NodeAt(node, path) ==
    IF path = <<>> THEN node ELSE NodeAt(node.children[Head(path)], Tail(path))
Front(path) == SubSeq(path, 1, Len(path) - 1)
Last(path) == path[Len(path)]

\* ---- the inputs ----
S(n) == Single(Name(n))
Trees ==
    {S("nsfw"),
     Single(Details("nsfw", Context({"k1"}, 1))),
     Single(Details("ownerOnly", Context({"k1", "k2"}, 1))),
     Single(Details("modOnly", EmptyContext)),
     Composite("and", <<>>),
     Composite("or", <<>>),
     Composite("and", <<S("nsfw"), S("ownerOnly")>>),
     Composite("or", <<S("nsfw"), S("ownerOnly")>>),
     Composite("and", <<S("nsfw"), Composite("or", <<S("ownerOnly"), S("modOnly")>>)>>),
     Composite("or", <<Composite("and", <<S("nsfw"), S("ownerOnly")>>),
                       Single(Details("modOnly", Context({"k2"}, 1)))>>)}
Args ==
    {[given |-> FALSE, ctx |-> EmptyContext],
     [given |-> TRUE, ctx |-> EmptyContext],
     [given |-> TRUE, ctx |-> Context({"k1"}, 2)],
     [given |-> TRUE, ctx |-> Context({"k1", "k2"}, 2)]}
NoArg == [given |-> FALSE, ctx |-> EmptyContext]
Cur(k, path, val) == [k |-> k, path |-> path, val |-> val]
NoCur == Cur("none", <<>>, FALSE)

\* A precondition is loaded, or reloaded with another definition
Register(n, pre) ==
    /\ changes < MaxChanges
    /\ registry[n] # pre
    /\ registry' = [registry EXCEPT ![n] = pre]
    /\ changes' = changes + 1
    /\ UNCHANGED <<tree, arg, epc, cur, calls, rets, result, evals, prev, notPre>>

\* A precondition is unloaded
Unregister(n) ==
    /\ changes < MaxChanges
    /\ registry[n] # Absent
    /\ registry' = [registry EXCEPT ![n] = Absent]
    /\ changes' = changes + 1
    /\ UNCHANGED <<tree, arg, epc, cur, calls, rets, result, evals, prev, notPre>>

\* The container is constructed (lines 51-59)
Construct(t) ==
    /\ tree = NoTree
    /\ tree' = t
    /\ UNCHANGED <<registry, changes, arg, epc, cur, calls, rets, result, evals, prev, notPre>>

\* The caller evaluates the container with a context
Evaluate(a) ==
    /\ tree # NoTree
    /\ epc \in {"idle", "done"}
    /\ evals < MaxEvals
    /\ evals' = evals + 1
    /\ prev' = [i \in DOMAIN calls |-> calls[i].pred]
    /\ arg' = a
    /\ epc' = "running"
    /\ cur' = Cur("call", <<>>, FALSE)
    /\ calls' = <<>>
    /\ rets' = {}
    /\ result' = "none"
    /\ UNCHANGED <<registry, changes, tree, notPre>>

\* run of a Single node (lines 67-71)
RunSingle ==
    /\ cur.k = "call"
    /\ LET node == NodeAt(tree, cur.path)
           r == SingleRun(registry, node, arg)
       IN  /\ node.type = "single"
           /\ IF r.kind = "invoke"
              THEN /\ calls' = Append(calls, [path |-> cur.path,
                                              node |-> node, pred |-> r.pred, ctx |-> r.ctx])
                   /\ cur' = Cur("await", cur.path, r.pred.passes)
                   /\ UNCHANGED <<epc, result>>
              ELSE IF r.kind = "throw"
              THEN /\ cur' = NoCur
                   /\ epc' = "done"
                   /\ result' = "error"
                   /\ UNCHANGED calls
              ELSE /\ cur' = Cur("await", cur.path, r.val)
                   /\ UNCHANGED <<calls, epc, result>>
    /\ UNCHANGED <<registry, changes, tree, arg, rets, evals, prev, notPre>>

\* run of an And / Or node: it starts with its first child
RunComposite ==
    /\ cur.k = "call"
    /\ LET node == NodeAt(tree, cur.path)
       IN  /\ node.type \in {"and", "or"}
           /\ IF node.children = <<>>
              THEN /\ cur' = Cur("ret", cur.path, node.type = "and")
                   /\ rets' = rets \cup {[path |-> cur.path, val |-> node.type = "and"]}
              ELSE /\ cur' = Cur("call", Append(cur.path, 1), FALSE)
                   /\ rets' = rets
    /\ UNCHANGED <<registry, changes, tree, arg, epc, calls, result, evals, prev, notPre>>

\* The promise of Precondition.run settles
PredicateSettles ==
    /\ cur.k = "await"
    /\ cur' = Cur("ret", cur.path, cur.val)
    /\ rets' = rets \cup {[path |-> cur.path, val |-> cur.val]}
    /\ UNCHANGED <<registry, changes, tree, arg, epc, calls, result, evals, prev, notPre>>

\* The awaiting parent resumes with its child's value; at the root the
\* evaluation ends
Resume ==
    /\ cur.k = "ret"
    /\ IF cur.path = <<>>
       THEN /\ epc' = "done"
            /\ result' = IF cur.val THEN "pass" ELSE "fail"
            /\ cur' = NoCur
            /\ rets' = rets
       ELSE LET parent == Front(cur.path)
                i == Last(cur.path)
                node == NodeAt(tree, parent)
            IN  /\ UNCHANGED <<epc, result>>
                /\ IF ShortCircuit(node.type, cur.val)
                   THEN /\ cur' = Cur("ret", parent, cur.val)
                        /\ rets' = rets \cup {[path |-> parent, val |-> cur.val]}
                   ELSE IF i = Len(node.children)
                   THEN /\ cur' = Cur("ret", parent, node.type = "and")
                        /\ rets' = rets \cup {[path |-> parent, val |-> node.type = "and"]}
                   ELSE /\ cur' = Cur("call", Append(parent, i + 1), FALSE)
                        /\ rets' = rets
    /\ UNCHANGED <<registry, changes, tree, arg, calls, evals, prev, notPre>>

PreNext ==
    \/ \E n \in Names, pre \in Preconditions : Register(n, pre)
    \/ \E n \in Names : Unregister(n)
    \/ \E t \in Trees : Construct(t)
    \/ \E a \in Args : Evaluate(a)
    \/ RunSingle
    \/ RunComposite
    \/ PredicateSettles
    \/ Resume

(***************************************************************************)
(* Message events handled concurrently: CoreEvent.run is an async method,  *)
(* so the client's emit returns at its first await and the next message    *)
(* event starts another invocation while the earlier ones are suspended    *)
(***************************************************************************)
\* message events emitted by the client
MaxMessages == 2

\* the client of these runs: its id is known, no pattern is configured
ConcClientId == Str("str", Id18)
ConcRegexPrefix == Null
ConcChannel(dm, cached, perm, fetched) ==
    [dm |-> dm, meCached |-> cached, perm |-> perm, fetched |-> fetched]
ConcDm == ConcChannel(TRUE, FALSE, FALSE, "reject")
ConcBang == Str("str", <<"!">>)
\* the messages that arrive
ConcMessages ==
    {Message(<<"!", "h">>, "user", ConcDm, ConcBang),
     Message(<<"h">>, "user", ConcDm, ConcBang),
     Message(<<"!", "h">>, "user", ConcDm, Rejects),
     Message(<<"<", "@">> \o Id18 \o <<">">>, "user", ConcDm, Null),
     Message(<<"<", "@">> \o Id18 \o <<">", "h">>, "user",
             ConcChannel(FALSE, FALSE, TRUE, "member"), Null),
     Message(<<"!", "h">>, "user", ConcChannel(FALSE, FALSE, TRUE, "reject"), ConcBang),
     Message(<<"!", "h">>, "user", ConcChannel(FALSE, TRUE, FALSE, "reject"), ConcBang),
     Message(<<"!", "h">>, "bot", ConcDm, ConcBang)}

\* a faulty run: the message is kept in a field of the piece, which the latest
\* message event overwrites
MessageOfShared(hs, i) == hs[Len(hs)].msg

\* CoreEvent.run, line 12: `message` is a parameter, local to the invocation
MessageOf(hs, i) == hs[i].msg

Handling(m, pc, can) == [msg |-> m, pc |-> pc, canRun |-> can]
Out(i, type, prefix) == [h |-> i, type |-> type, prefix |-> prefix]

\* The client emits a message event: Listener._run calls CoreEvent.run, which
\* runs up to its first await (lines 12-17, 41-44)
StartRun(m) ==
    /\ Len(handlings) < MaxMessages
    /\ handlings' = Append(handlings,
          IF Ignored(m) THEN Handling(m, "done", FALSE)
          ELSE IF NeedsMemberFetch(ConcClientId, m) THEN Handling(m, "awaitMember", FALSE)
          ELSE Handling(m, "awaitGate", CanRunNoFetch(m)))
    /\ UNCHANGED <<outbox, notConc>>

\* guild.members.fetch settles for invocation i (lines 44-48); a rejection is
\* caught by Listener._run (Listener.ts lines 87-89)
ResumeMember(i) ==
    /\ handlings[i].pc = "awaitMember"
    /\ LET m == MessageOf(handlings, i)
       IN  IF m.fetched # "reject"
           THEN /\ handlings' = [handlings EXCEPT ![i].pc = "awaitGate",
                                     ![i].canRun = (m.fetched = "member" /\ m.perm)]
                /\ outbox' = outbox
           ELSE /\ handlings' = [handlings EXCEPT ![i].pc = "done"]
                /\ outbox' = Append(outbox, Out(i, "listenerError", Null))
    /\ UNCHANGED notConc

\* canRunInChannel's promise settles for invocation i (lines 18-38, up to fetchPrefix)
ResumeGate(i) ==
    /\ handlings[i].pc = "awaitGate"
    /\ LET m == MessageOf(handlings, i)
           r == ResolveTier(ConcClientId, ConcRegexPrefix, m.content)
       IN  IF ~handlings[i].canRun
           THEN /\ handlings' = [handlings EXCEPT ![i].pc = "done"]
                /\ outbox' = outbox
           ELSE IF r.tier = "mentionOnly"
           THEN /\ handlings' = [handlings EXCEPT ![i].pc = "done"]
                /\ outbox' = Append(outbox, Out(i, "mentionPrefixOnly", Null))
           ELSE IF r.tier = "fetch"
           THEN /\ handlings' = [handlings EXCEPT ![i].pc = "awaitPrefix"]
                /\ outbox' = outbox
           ELSE /\ handlings' = [handlings EXCEPT ![i].pc = "done"]
                /\ outbox' = Append(outbox, Out(i, "prefixedMessage", r.prefix))
    /\ UNCHANGED notConc

\* client.fetchPrefix settles for invocation i (lines 33-38)
ResumePrefix(i) ==
    /\ handlings[i].pc = "awaitPrefix"
    /\ handlings' = [handlings EXCEPT ![i].pc = "done"]
    /\ LET m == MessageOf(handlings, i)
       IN  IF m.dyn = Rejects
           THEN outbox' = Append(outbox, Out(i, "listenerError", Null))
           ELSE LET parsed == GetPrefix(m.content, m.dyn)
                IN  IF parsed # Null
                    THEN outbox' = Append(outbox, Out(i, "prefixedMessage", parsed))
                    ELSE outbox' = outbox
    /\ UNCHANGED notConc

ConcNext ==
    \/ \E m \in ConcMessages : StartRun(m)
    \/ \E i \in DOMAIN handlings : ResumeMember(i)
    \/ \E i \in DOMAIN handlings : ResumeGate(i)
    \/ \E i \in DOMAIN handlings : ResumePrefix(i)

(***************************************************************************)
(* The chain of listener-error events: Listener._run wraps the listener of *)
(* Events.ListenerError too, so its own fault is emitted to itself. The    *)
(* chain is followed without the logs of firings and emissions.            *)
(***************************************************************************)
\* emit calls the call stack of the engine has room for
StackLimit == 3

\* how a listener's run can end: it returns or resolves, throws, or rejects
RunEnds == {"ok", "throw", "reject"}

\* The listener of listenerError is written: how its run ends, whenever called
Configure(h) ==
    /\ eRun = "unset"
    /\ eRun' = h
    /\ UNCHANGED <<chain, depth, unhandled, listenerVars, notFault>>

\* The handler of a loaded listener of "ev" faults and _run's catch emits
\* listenerError (Listener.ts lines 87-89)
HandlerFaults(l) ==
    /\ eRun # "unset"
    /\ chain = "quiet"
    /\ EventOf(l) = "ev" /\ lstate[l] = "loaded"
    /\ Run(l, 0, "reject").emits # <<>>
    /\ chain' = "emitted"
    /\ depth' = 1
    /\ UNCHANGED <<eRun, unhandled, listenerVars, notFault>>

\* emit(listenerError) calls its listener: _run of the listener of listenerError
\* up to its await, or through its catch when run throws (lines 84-90)
DeliverError ==
    /\ chain = "emitted"
    /\ IF "E" \notin Subscribed(ListenerError)
       THEN chain' = "quiet" /\ depth' = 0 /\ UNCHANGED unhandled
       ELSE IF eRun # "throw"
       THEN chain' = "suspended" /\ depth' = 0 /\ UNCHANGED unhandled
       ELSE IF Run("E", 0, eRun).emits = <<>>
       THEN chain' = "quiet" /\ depth' = 0 /\ UNCHANGED unhandled
       ELSE IF depth < StackLimit
       THEN chain' = "emitted" /\ depth' = depth + 1 /\ UNCHANGED unhandled
       ELSE chain' = "quiet" /\ depth' = 0 /\ unhandled' = TRUE
    /\ UNCHANGED <<eRun, listenerVars, notFault>>

\* The promise of run settles and _run resumes: a rejection is emitted as
\* listenerError (lines 86-89)
ResumeError ==
    /\ chain = "suspended"
    /\ IF Run("E", 0, eRun).emits # <<>>
       THEN chain' = "emitted" /\ depth' = 1
       ELSE chain' = "quiet" /\ depth' = 0
    /\ UNCHANGED <<eRun, unhandled, listenerVars, notFault>>

FaultNext ==
    \/ \E h \in RunEnds : Configure(h)
    \/ \E l \in Listeners : chain # "emitted" /\ Load(l)
    \/ \E l \in Listeners : chain # "emitted" /\ Unload(l)
    \/ \E l \in Listeners : HandlerFaults(l)
    \/ DeliverError
    \/ ResumeError

\* The state after construction: no message in hand, no listener loaded, every
\* precondition registered
Init ==
    /\ clientId = Null
    /\ regexPrefix = Null
    /\ msg = NoMessage
    /\ ppc = "idle"
    /\ canRun = FALSE
    /\ emitted = <<>>
    /\ memberFetches = 0
    /\ prefixFetches = 0
    /\ lstate = [l \in Listeners |-> "new"]
    /\ subs = [e \in EventNames |-> <<>>]
    /\ stack = <<>>
    /\ tasks = {}
    /\ firings = <<>>
    /\ emissions = <<>>
    /\ unloads = <<>>
    /\ propagated = {}
    /\ seen = [l \in Listeners |-> 0]
    /\ registry = [n \in Names |-> [id |-> 1, passes |-> TRUE]]
    /\ changes = 0
    /\ tree = NoTree
    /\ arg = NoArg
    /\ epc = "idle"
    /\ cur = NoCur
    /\ calls = <<>>
    /\ rets = {}
    /\ result = "none"
    /\ evals = 0
    /\ prev = <<>>
    /\ handlings = <<>>
    /\ outbox = <<>>
    /\ eRun = "unset"
    /\ chain = "quiet"
    /\ depth = 0
    /\ unhandled = FALSE

SpecParser == Init /\ [][ParserNext]_vars

SpecListener == Init /\ [][ListenerNext]_vars

SpecPre == Init /\ [][PreNext]_vars

SpecConc == Init /\ [][ConcNext]_vars

\* emit calls its listeners synchronously and the event loop resumes every
\* settled await, so a chain under way is never left standing
SpecFault ==
    Init /\ [][FaultNext]_vars /\ WF_vars(DeliverError) /\ WF_vars(ResumeError)

(***************************************************************************)
(* Properties of the message parser                                        *)
(***************************************************************************)
\* The bot's mention token, plain `<@id>` and nickname `<@!id>`
PlainToken(id) == <<"<", "@">> \o id.val \o <<">">>
NickToken(id) == <<"<", "@", "!">> \o id.val \o <<">">>
\* The mention token msg.content starts with, or <<>>
LeadingToken ==
    IF clientId = Null THEN <<>>
    ELSE IF StartsWith(msg.content, PlainToken(clientId)) THEN PlainToken(clientId)
    ELSE IF StartsWith(msg.content, NickToken(clientId)) THEN NickToken(clientId)
    ELSE <<>>
\* The handling of a permitted message of a user is over
Handled == ppc = "done" /\ msg.author = "user" /\ canRun
Prefixed(p) == <<Event("prefixedMessage", p)>>
EventTypes == {emitted[i].type : i \in DOMAIN emitted}

\* C4: prefix precedence. A mention followed by text yields the mention token,
\* whatever the pattern and the dynamic prefixes; without a mention a configured
\* pattern is the prefix; fetchPrefix is consulted only when there is neither.
C4_Precedence ==
    /\ Handled /\ LeadingToken # <<>> /\ Len(msg.content) > Len(LeadingToken)
         => emitted = Prefixed(Str("str", LeadingToken)) /\ prefixFetches = 0
    /\ Handled /\ LeadingToken = <<>> /\ regexPrefix # Null
         => emitted = Prefixed(regexPrefix) /\ prefixFetches = 0
    /\ prefixFetches > 0 => LeadingToken = <<>> /\ regexPrefix = Null

\* C4 witness: a mention with text, a pattern configured, a dynamic prefix that matches
C4_Witness ==
    /\ Handled /\ LeadingToken # <<>> /\ Len(msg.content) > Len(LeadingToken)
    /\ regexPrefix # Null
    /\ msg.dyn = Str("array", <<<<"<">>, <<"<", "@">>>>)
    /\ emitted = Prefixed(Str("str", LeadingToken))

\* C5: a permitted message that is exactly the bot's mention token emits the
\* mention-only event and nothing else, and fetchPrefix is not called.
C5_MentionOnly ==
    Handled /\ clientId # Null /\ msg.content \in {PlainToken(clientId), NickToken(clientId)}
        => emitted = <<Event("mentionPrefixOnly", Null)>> /\ prefixFetches = 0

\* C5 witness: the plain token of a 17-digit id (20 characters), a pattern configured
C5_Witness ==
    /\ Handled /\ clientId # Null /\ msg.content = PlainToken(clientId)
    /\ Len(msg.content) = MinMentionLength
    /\ regexPrefix # Null
    /\ emitted = <<Event("mentionPrefixOnly", Null)>>

\* msg.content begins `<@id` or `<@!id` and the next character is not `>`
BadClose ==
    /\ clientId # Null
    /\ \/ /\ StartsWith(msg.content, <<"<", "@">> \o clientId.val)
          /\ CharAt(msg.content, 2 + Len(clientId.val)) # ">"
       \/ /\ StartsWith(msg.content, <<"<", "@", "!">> \o clientId.val)
          /\ CharAt(msg.content, 3 + Len(clientId.val)) # ">"

\* C6: a mention whose closing `>` is missing is not a mention: no mention-only
\* event, and the pattern (if configured) or else the dynamic prefixes decide.
C6_MissingClose ==
    Handled /\ BadClose
        => /\ "mentionPrefixOnly" \notin EventTypes
           /\ regexPrefix # Null => emitted = Prefixed(regexPrefix) /\ prefixFetches = 0
           /\ regexPrefix = Null
                => /\ prefixFetches = 1
                   /\ \A i \in DOMAIN emitted :
                        emitted[i].type = "prefixedMessage"
                            => emitted[i].prefix.val \in {msg.dyn.val} \cup
                                   {msg.dyn.val[k] : k \in DOMAIN msg.dyn.val}

\* C6 witness: `<@` id and a wrong character, long enough to pass the length test
C6_Witness ==
    /\ Handled /\ BadClose /\ Len(msg.content) >= MinMentionLength
    /\ regexPrefix = Null /\ prefixFetches = 1
    /\ emitted = Prefixed(Str("str", <<"<">>))

\* The candidates of a fetched value, in order
Candidates(fetched) ==
    IF fetched = Null THEN <<>>
    ELSE IF fetched.kind = "str" THEN <<fetched.val>>
    ELSE fetched.val
\* i is the first candidate msg.content starts with
FirstMatch(cs, i) ==
    /\ StartsWith(msg.content, cs[i])
    /\ \A j \in 1..(i - 1) : ~StartsWith(msg.content, cs[j])

\* C7: without mention and pattern, the first fetched candidate the text starts
\* with is the prefix of the one prefixed-message event; with null or no matching
\* candidate nothing is emitted.
C7_Dynamic ==
    Handled /\ LeadingToken = <<>> /\ regexPrefix = Null /\ msg.dyn # Rejects
        => LET cs == Candidates(msg.dyn)
           IN  /\ prefixFetches = 1
               /\ \A i \in DOMAIN cs :
                    FirstMatch(cs, i) => emitted = Prefixed(Str("str", cs[i]))
               /\ (\A i \in DOMAIN cs : ~StartsWith(msg.content, cs[i])) => emitted = <<>>

\* C7 witness: two candidates match and the first one is taken
C7_Witness ==
    /\ Handled /\ regexPrefix = Null
    /\ msg.dyn = Str("array", <<<<"<">>, <<"<", "@">>>>)
    /\ emitted = Prefixed(Str("str", <<"<">>))

\* canRunInChannel has resolved with false for msg (a rejected member fetch is
\* not a result of the gate)
GateReturnedFalse ==
    /\ msg.author = "user"
    /\ ppc \in {"awaitPrefix", "done"}
    /\ ~canRun
    /\ memberFetches = 1 => msg.fetched # "reject"

\* C13: once the gate has returned false for a message nothing more happens: no
\* mention-only, prefixed-message or listener-error event, no prefix fetch.
C13_DeniedIsSilent ==
    GateReturnedFalse => ppc = "done" /\ emitted = <<>> /\ prefixFetches = 0

\* C13 witness: the bot was fetched, lacks the permissions, and the denied
\* message is a mention with text while a pattern is configured
C13_Witness ==
    /\ GateReturnedFalse /\ ppc = "done"
    /\ memberFetches = 1 /\ ~msg.perm
    /\ LeadingToken # <<>> /\ Len(msg.content) > Len(LeadingToken)
    /\ regexPrefix # Null
    /\ emitted = <<>>

\* The bot id 123456789012345678 and its plain mention token followed by a space
Bot18 == Str("str", Id18)
TokenAndSpace == PlainToken(Bot18) \o <<" ">>

\* C14 as stated: for bot id 123456789012345678 a permitted message with the
\* text `<@123456789012345678> ` emits the mention-only event and no
\* prefixed-message event.
C14_AsStated ==
    Handled /\ clientId = Bot18 /\ msg.content = TokenAndSpace
        => emitted = <<Event("mentionPrefixOnly", Null)>>

\* C14: for bot id 123456789012345678 a permitted message with the text
\* `<@123456789012345678> ` (22 characters, the token has 21) emits one
\* prefixed-message event whose prefix is the token, and no mention-only
\* event; the 21-character text `<@123456789012345678>` emits the mention-only
\* event and no prefixed-message event. fetchPrefix is called for neither.
C14_TokenAndSpace ==
    /\ Handled /\ clientId = Bot18 /\ msg.content = TokenAndSpace
          => emitted = Prefixed(Str("str", PlainToken(Bot18))) /\ prefixFetches = 0
    /\ Handled /\ clientId = Bot18 /\ msg.content = PlainToken(Bot18)
          => emitted = <<Event("mentionPrefixOnly", Null)>> /\ prefixFetches = 0

\* C14 witness: the token and a space were handled, and the token is the prefix
C14_Witness ==
    /\ Handled /\ clientId = Bot18 /\ msg.content = TokenAndSpace
    /\ Len(msg.content) = 22
    /\ emitted = Prefixed(Str("str", PlainToken(Bot18)))

\* canRunInChannel has settled for msg, with a result or with a rejection
GateSettled == msg.author = "user" /\ ppc \in {"awaitGate", "awaitPrefix", "done"}
FetchRejected == memberFetches = 1 /\ msg.fetched = "reject"
\* The bot's member is at hand: cached, or produced by the fetch
Resolved == msg.meCached \/ (clientId # Null /\ msg.fetched = "member")
\* The gate's result is false: it returned, and run stopped (or will stop) silently
ResultIsFalse == GateSettled /\ ~FetchRejected /\ ~canRun /\ emitted = <<>>

\* C15 as stated: in a guild channel whose membership cannot be resolved (not
\* cached, and the client id unknown or the fetch without a member) the gate's
\* result is false.
C15_AsStated ==
    GateSettled /\ ~msg.dm /\ ~Resolved => ResultIsFalse

\* C15: the gate is true for every DM, without fetch; in a guild channel the
\* member is fetched exactly when it is not cached and the client id is known;
\* the result is false when the member is not cached and the client id is
\* unknown or the fetch resolved without a member, and else it is whether the
\* permissions suffice. When the fetch rejects the gate has no result: nothing
\* but one listener-error event is emitted and fetchPrefix is not called.
C15_GateResult ==
    /\ msg.author = "user" /\ ppc # "idle"
          => memberFetches = IF ~msg.dm /\ ~msg.meCached /\ clientId # Null THEN 1 ELSE 0
    /\ GateSettled /\ msg.dm => canRun /\ memberFetches = 0
    /\ GateSettled /\ ~msg.dm /\ ~Resolved /\ ~FetchRejected => ResultIsFalse
    /\ GateSettled /\ ~msg.dm /\ Resolved => canRun = msg.perm
    /\ GateSettled /\ FetchRejected
          => /\ ppc = "done"
             /\ emitted = <<Event("listenerError", Null)>>
             /\ prefixFetches = 0

\* C15 witness: the member was not cached, the client id known, and the fetch
\* rejected: a listener-error event instead of a silent stop
C15_Witness ==
    /\ GateSettled /\ ~msg.dm /\ ~msg.meCached /\ clientId # Null
    /\ FetchRejected
    /\ emitted = <<Event("listenerError", Null)>>

\* msg.content matches the configured pattern `^x`
MatchesPattern == regexPrefix # Null /\ StartsWith(msg.content, Tail(regexPrefix.val))

\* C16: with a pattern configured and no mention at the start of the text, the
\* handling of a permitted message never calls fetchPrefix and ends with one
\* prefixed-message event whose prefix is the pattern itself, whether or not the
\* text matches the pattern.
C16_PatternVerbatim ==
    msg.author = "user" /\ regexPrefix # Null /\ LeadingToken = <<>>
        => /\ prefixFetches = 0 /\ ppc # "awaitPrefix"
           /\ Handled => emitted = Prefixed(regexPrefix)
           /\ "mentionPrefixOnly" \notin EventTypes

\* C16 witness: the text does not match the pattern `^!`, a dynamic prefix would
\* match it, and the pattern is the prefix
C16_Witness ==
    /\ Handled /\ regexPrefix # Null /\ LeadingToken = <<>>
    /\ ~MatchesPattern
    /\ msg.content = <<"<", "@", "h">>
    /\ msg.dyn = Str("array", <<<<"<", "@">>, <<"<">>>>)
    /\ emitted = Prefixed(regexPrefix)

\* C19: the handling of a message of a bot or of a webhook is over as soon as it
\* began: no member fetch, no prefix fetch, no event, whatever the text, the
\* channel and the configuration.
C19_BotsIgnored ==
    msg.author \in {"bot", "webhook"}
        => /\ ppc = "done"
           /\ memberFetches = 0 /\ prefixFetches = 0
           /\ emitted = <<>>

\* C19 witness: a webhook's message that is exactly the bot's mention, in a
\* guild channel where the bot's member would have to be fetched
C19_Witness ==
    /\ msg.author = "webhook" /\ ppc = "done"
    /\ clientId # Null /\ msg.content = PlainToken(clientId)
    /\ ~msg.dm /\ ~msg.meCached /\ msg.fetched = "member" /\ msg.perm
    /\ regexPrefix # Null
    /\ memberFetches = 0 /\ emitted = <<>>

(***************************************************************************)
(* Properties of the listener lifecycle                                    *)
(***************************************************************************)
\* The listener-error emissions that carry the error of firing f
ErrEmits(f) ==
    {e \in DOMAIN emissions : emissions[e].ev = ListenerError /\ emissions[e].err = f}
FiringsOf(l) == {f \in DOMAIN firings : firings[f].l = l}
Faulted(f) == firings[f].outcome \in {"throw", "reject"}
Min(a, b) == IF a < b THEN a ELSE b

\* C1: no handler error reaches the emit call; once the wrapper has handled a
\* firing whose handler threw or rejected, exactly one listener-error emission
\* carries that error, with the faulting listener as piece; a firing that
\* completed normally, or has not settled, has none.
C1_ErrorIsolation ==
    /\ propagated = {}
    /\ \A f \in DOMAIN firings :
        /\ Cardinality(ErrEmits(f)) = IF firings[f].done /\ Faulted(f) THEN 1 ELSE 0
        /\ \A e \in ErrEmits(f) : emissions[e].piece = firings[f].l

\* C1 witness: the once listener rejected, the persistent one threw, a third
\* firing returned; each fault has its listener-error emission
C1_Witness ==
    /\ \E f \in FiringsOf("B") :
          firings[f].outcome = "reject" /\ firings[f].done /\ ErrEmits(f) # {}
    /\ \E f \in FiringsOf("A") :
          firings[f].outcome = "throw" /\ firings[f].done /\ ErrEmits(f) # {}
    /\ \E f \in DOMAIN firings :
          firings[f].outcome = "ok" /\ firings[f].done /\ ErrEmits(f) = {}

\* C2: every emit call that has ended has invoked every listener that was
\* subscribed to the event when it began, whatever the other handlers did; and a
\* loaded persistent listener, or a once listener that has not fired, is still
\* subscribed for the emissions to come.
C2_SiblingsStillRun ==
    /\ \A e \in DOMAIN emissions :
          emissions[e].done =>
              \A i \in DOMAIN emissions[e].snapshot :
                  \E f \in FiringsOf(emissions[e].snapshot[i].l) : firings[f].em = e
    /\ \A l \in Listeners :
          \/ lstate[l] = "loaded" /\ ~Once(l)
          \/ lstate[l] # "new" /\ Once(l) /\ FiringsOf(l) = {}
          => l \in Subscribed(EventOf(l))

\* C2 witness: the first of two listeners threw, the second was invoked in the
\* same emission, and the persistent one again in a later emission
C2_Witness ==
    \E e1, e2 \in DOMAIN emissions :
        /\ e1 < e2
        /\ emissions[e1].ev = "ev" /\ emissions[e2].ev = "ev"
        /\ emissions[e1].done /\ emissions[e2].done
        /\ Len(emissions[e1].snapshot) = 2
        /\ \E f \in FiringsOf(emissions[e1].snapshot[1].l) :
              firings[f].em = e1 /\ firings[f].outcome = "throw"
        /\ \E f \in FiringsOf(emissions[e1].snapshot[2].l) : firings[f].em = e1
        /\ \E f \in FiringsOf("A") : firings[f].em = e2

\* C3: a once listener's handler is invoked at most once, and exactly once as
\* soon as one emission was due to it; a persistent listener's handler is invoked
\* once for each emission made while it was loaded.
C3_OnceFiresOnce ==
    /\ \A l \in Listeners : Once(l) => Cardinality(FiringsOf(l)) <= 1
    /\ stack = <<>> =>
          \A l \in Listeners :
              Cardinality(FiringsOf(l)) = IF Once(l) THEN Min(1, seen[l]) ELSE seen[l]

\* C3 witness: two emissions back to back while the once listener's self-unload
\* is still to come; it fired once, the persistent listener twice
C3_Witness ==
    /\ stack = <<>>
    /\ seen["B"] = 2 /\ Cardinality(FiringsOf("B")) = 1
    /\ \E t \in tasks : t.l = "B"
    /\ lstate["B"] = "loaded"
    /\ seen["A"] = 2 /\ Cardinality(FiringsOf("A")) = 2

\* The firings whose self-unload was requested, the firings still in progress
Unloaded(f) == \E i \in DOMAIN unloads : unloads[i].f = f
InProgress(f) == \E t \in tasks : t.f = f

\* C11: every firing of a once listener that is over has exactly one self-unload
\* request, made after the handler settled and, when it faulted, after the
\* listener-error emission of that fault had ended; it is made after a success
\* and after a fault alike. No firing of a persistent listener has one.
C11_SelfUnload ==
    /\ \A f \in DOMAIN firings :
          Once(firings[f].l) /\ ~InProgress(f) => Unloaded(f)
    /\ \A i \in DOMAIN unloads :
          LET f == unloads[i].f
          IN  /\ Once(unloads[i].l) /\ firings[f].l = unloads[i].l
              /\ firings[f].done
              /\ Faulted(f) => \E e \in ErrEmits(f) : emissions[e].done
              /\ \A j \in DOMAIN unloads : unloads[j].f = f => j = i

\* C11 witness: the once listener's handler rejected, the listener-error emission
\* ended, and then the self-unload was requested
C11_Witness ==
    \E i \in DOMAIN unloads :
        /\ unloads[i].l = "B"
        /\ firings[unloads[i].f].outcome = "reject"
        /\ \E e \in ErrEmits(unloads[i].f) : emissions[e].done
        /\ \E f \in FiringsOf("A") : firings[f].done

\* C12: an unloaded listener is not subscribed to its source, and no step invokes
\* its handler. (Listener.onUnload calls off only when `once` is false, so a once
\* listener unloaded before its first firing keeps its registration.)
C12_UnloadedUnsubscribed ==
    [][\A l \in Listeners :
          lstate[l] = "unloaded"
              => /\ l \notin Subscribed(EventOf(l))
                 /\ FiringsOf(l)' = FiringsOf(l)]_vars

(***************************************************************************)
(* Properties of message events handled concurrently                       *)
(***************************************************************************)
\* The events the handling of m emits when no other message is around
AloneEvents(m) ==
    IF Ignored(m) THEN <<>>
    ELSE IF ~m.dm /\ ~m.meCached /\ m.fetched = "reject"
    THEN <<Event("listenerError", Null)>>
    ELSE IF ~(m.dm \/ ((m.meCached \/ m.fetched = "member") /\ m.perm)) THEN <<>>
    ELSE LET r == ResolveTier(ConcClientId, ConcRegexPrefix, m.content)
         IN  IF r.tier = "mentionOnly" THEN <<Event("mentionPrefixOnly", Null)>>
             ELSE IF r.tier = "mention" THEN <<Event("prefixedMessage", r.prefix)>>
             ELSE IF m.dyn = Rejects THEN <<Event("listenerError", Null)>>
             ELSE IF GetPrefix(m.content, m.dyn) = Null THEN <<>>
             ELSE <<Event("prefixedMessage", GetPrefix(m.content, m.dyn))>>
\* The events invocation i has emitted, in order
EventsOf(i) ==
    LET mine == SelectSeq(outbox, LAMBDA e : e.h = i)
    IN  [k \in DOMAIN mine |-> Event(mine[k].type, mine[k].prefix)]
Output(e) == e.type \in {"prefixedMessage", "mentionPrefixOnly"}

\* C18: the invocations of run do not wait for one another and do not disturb
\* one another: a suspended invocation can always resume, whatever the state of
\* the others, and a finished one has emitted exactly the events its own message
\* determines; nothing ties the order of the events to the order of arrival.
C18_Independent ==
    \A i \in DOMAIN handlings :
        IF handlings[i].pc = "done"
        THEN EventsOf(i) = AloneEvents(handlings[i].msg)
        ELSE /\ EventsOf(i) = <<>>
             /\ ENABLED (ResumeMember(i) \/ ResumeGate(i) \/ ResumePrefix(i))

\* C18 witness: A arrived first and was suspended at the member fetch, B arrived,
\* was suspended at the prefix fetch and finished; B's prefixed-message event
\* precedes A's
C18_Witness ==
    /\ Len(handlings) = 2
    /\ handlings[1].pc = "done" /\ handlings[2].pc = "done"
    /\ ~handlings[1].msg.dm /\ ~handlings[1].msg.meCached
    /\ handlings[2].msg.dyn = ConcBang
    /\ Len(outbox) = 2
    /\ outbox[1].h = 2 /\ Output(outbox[1])
    /\ outbox[2].h = 1 /\ Output(outbox[2])

\* C20: the handling of a fault ends: whenever a listener-error event has been
\* emitted, the chain it starts comes to rest, also when the listener of
\* listenerError faults itself. (_run emits that listener's fault as another
\* listenerError event, which the same listener receives.)
C20_FaultsSettle == (chain = "emitted") ~> (chain = "quiet")

(***************************************************************************)
(* Properties of the precondition containers                               *)
(***************************************************************************)
\* The node whose run is about to be called
CalledNode == NodeAt(tree, cur.path)
\* The invocations and the started nodes of the evaluation in progress
CurrentCalls == DOMAIN calls
Started ==
    {calls[i].path : i \in CurrentCalls} \cup (IF cur.k # "none" THEN {cur.path} ELSE {})
Returned(path, val) == [path |-> path, val |-> val] \in rets

\* C8: the run of a Single node whose name is absent from the registry at that
\* moment ends the evaluation with an error in that very step: no precondition
\* is invoked, nothing is pending, and the result is neither pass nor fail.
C8_AbsentThrows ==
    [][(/\ cur.k = "call"
        /\ CalledNode.type = "single"
        /\ registry[CalledNode.name] = Absent
        /\ cur' # cur)
          => /\ result' = "error"
             /\ epc' = "done"
             /\ cur' = NoCur
             /\ calls' = calls]_vars

\* C8 witness: a Single node evaluated after its precondition was unloaded
C8_Witness ==
    /\ tree = S("nsfw")
    /\ registry["nsfw"] = Absent
    /\ epc = "done" /\ result = "error"
    /\ CurrentCalls = {}

\* C17: each run of a Single node looks its name up in the registry as it is in
\* that step: it invokes exactly the precondition registered under the name
\* then, whatever was registered when the node was constructed or evaluated
\* before, and ends the evaluation with an error when the name is absent then.
C17_LateBinding ==
    [][(/\ cur.k = "call"
        /\ CalledNode.type = "single"
        /\ cur' # cur)
          => IF registry[CalledNode.name] = Absent
             THEN result' = "error" /\ calls' = calls
             ELSE /\ Len(calls') = Len(calls) + 1
                  /\ calls'[Len(calls')].pred = registry[CalledNode.name]
                  /\ calls'[Len(calls')].node = CalledNode
                  /\ result' = result]_vars

\* C17 witness: the same Single node was evaluated twice; the first evaluation
\* invoked the precondition of start-up, the second one its redefinition
C17_Witness ==
    /\ tree = S("nsfw") /\ evals = 2
    /\ prev = <<[id |-> 1, passes |-> TRUE]>>
    /\ CurrentCalls = {1}
    /\ calls[1].pred = [id |-> 2, passes |-> FALSE]
    /\ epc = "done" /\ result = "fail"

\* C17 witness of the two other cases: a name absent at construction and at the
\* first evaluation (which ended with the error) was registered before the second
C17_WitnessRegistered ==
    /\ tree = S("nsfw") /\ evals = 2 /\ changes = 2
    /\ prev = <<>>
    /\ CurrentCalls = {1}
    /\ calls[1].pred = [id |-> 2, passes |-> TRUE]
    /\ epc = "done" /\ result = "pass"

\* C9: the context a precondition is invoked with has the keys of the caller's
\* context and of the node's context, the node's value under each of the node's
\* keys and the caller's value under the others; a node made from a bare name
\* passes the caller's context on unchanged ({} when none was given).
C9_MergedContext ==
    \A i \in CurrentCalls :
        LET c == calls[i]
            caller == IF arg.given THEN arg.ctx ELSE EmptyContext
            own == c.node.context
        IN  /\ DOMAIN c.ctx = DOMAIN caller \cup DOMAIN own
            /\ \A k \in DOMAIN c.ctx : c.ctx[k] = IF k \in DOMAIN own THEN own[k] ELSE caller[k]
            /\ c.node.bare => c.ctx = caller

\* C9 witness: k1 is set by both (the node's 1 wins), k2 by the caller alone
C9_Witness ==
    \E i \in CurrentCalls :
        /\ calls[i].node.context = Context({"k1"}, 1)
        /\ arg.given /\ arg.ctx = Context({"k1", "k2"}, 2)
        /\ calls[i].ctx["k1"] = 1 /\ calls[i].ctx["k2"] = 2

\* C10: a child of an And / Or node is started only after each earlier child
\* has returned, with true under And and false under Or; an And node returns
\* true exactly when all its children returned true, an Or node returns true
\* exactly when one child returned true; the root's value is the result.
C10_ShortCircuit ==
    /\ \A q \in Started : \A d \in 1..Len(q) :
          LET parent == SubSeq(q, 1, d - 1)
          IN  \A i \in 1..(q[d] - 1) :
                  Returned(Append(parent, i), NodeAt(tree, parent).type = "and")
    /\ \A r \in rets :
          LET node == NodeAt(tree, r.path)
              all == \A i \in DOMAIN node.children : Returned(Append(r.path, i), TRUE)
              none == \A i \in DOMAIN node.children : Returned(Append(r.path, i), FALSE)
              some(v) == \E i \in DOMAIN node.children : Returned(Append(r.path, i), v)
          IN  /\ node.type = "and" => IF r.val THEN all ELSE some(FALSE)
              /\ node.type = "or" => IF r.val THEN some(TRUE) ELSE none
    /\ epc = "done" /\ result # "error" => Returned(<<>>, result = "pass")

\* C10 witness: And([P_false, P_true]) ended in fail and P_true was not invoked
C10_Witness ==
    /\ tree = Composite("and", <<S("nsfw"), S("ownerOnly")>>)
    /\ epc = "done" /\ result = "fail"
    /\ ~registry["nsfw"].passes /\ registry["ownerOnly"].passes
    /\ {calls[i].node.name : i \in CurrentCalls} = {"nsfw"}

====
